---- MODULE Spec2Model ----
(***************************************************************************)
(* State-machine model of CronScheduler (src/src/cronScheduler.js).        *)
(*                                                                         *)
(* The scheduler lives on the single-threaded Node.js event loop.  One     *)
(* step of the model is one piece of code that runs without interruption:  *)
(* a public method called by the embedding program (schedule, cancel,      *)
(* listTasks, shutdown), one callback of a setInterval timer, one job of   *)
(* the microtask queue, or the resumption of executeTask after the awaited *)
(* body has settled.  The log sink (log(), lines 203-225) only writes to   *)
(* the console and to a file and is not part of the modelled state.        *)
(***************************************************************************)
EXTENDS Integers, Sequences, FiniteSets, TLC

VARIABLES
    tasks,          \* keys of this.tasks (the Map of line 14)
    taskCounter,    \* this.taskCounter
    scheduledTask,  \* the scheduledTask objects ever created, by id; the
                    \* closure executeTask keeps its object after removal
    timers,         \* live setInterval handles: handle |-> time it is due
    microtasks,     \* the microtask queue: ids whose body start is pending
    inFlight,       \* per id, bodies begun and not yet settled
    now,            \* Date.now(), in milliseconds
    ret,            \* outcome of the last public method call
    fired,          \* history: per id, timer callbacks run
    started,        \* history: per id, bodies begun
    completed,      \* history: per id, runs of executeTask finished
    returned,       \* history: ids returned by schedule, in call order
    immediate,      \* history: ids scheduled with runImmediately
    cancelled,      \* history: ids for which cancel returned true
    shutDown        \* history: ids removed by a shutdown that returned

vars == <<tasks, taskCounter, scheduledTask, timers, microtasks, inFlight, now,
          ret, fired, started, completed, returned, immediate, cancelled,
          shutDown>>

-----------------------------------------------------------------------------
(* Bounds of the model.                                                    *)

MaxTasks == 2       \* Spec: successful schedule calls
MaxFirings == 1     \* Spec: timer callbacks per task
MaxTime == 1        \* Spec: minutes the clock advances
SoloFirings == 3    \* SpecSolo: timer callbacks of the one task
SoloTime == 3       \* SpecSolo: minutes the clock advances
MaxUnits == 2       \* largest number tried in a field of a frequency

-----------------------------------------------------------------------------
(* Values.                                                                 *)

Null == -1          \* null in lastRun, nextRun (no Date is negative here)

MsPerMinute == 60 * 1000
MsPerHour == 60 * 60 * 1000
MsPerDay == 24 * 60 * 60 * 1000

\* A JavaScript value held in a field of the frequency object.
Undefined == [type |-> "undefined", val |-> 0]
Num(n) == [type |-> "number", val |-> n]
Str == [type |-> "string", val |-> 0]

Freq(m, h, d) == [type |-> "object", minutes |-> m, hours |-> h, days |-> d]
NotAnObject == {[type |-> "null"], [type |-> "string"]}

\* typeof v === 'number' && v > 0
Positive(v) == v.type = "number" /\ v.val > 0

\* `${n} unit${n !== 1 ? 's' : ''}`
Plural(n, unit) == ToString(n) \o " " \o unit \o (IF n # 1 THEN "s" ELSE "")

\* description += description ? ' ' : ''
Sep(description) == IF description # "" THEN " " ELSE ""

\* normalizeFrequency with the three tests chained by else-if, so that only
\* the first positive unit counts.
normalizeFrequencyFirstUnit(frequency) ==
    IF frequency.type # "object"
    THEN [ok |-> FALSE, error |-> "Frequency must be an object"]
    ELSE
      LET minutes == frequency.minutes
          hours == frequency.hours
          days == frequency.days
      IN  IF Positive(minutes)
          THEN [ok |-> TRUE, intervalMs |-> minutes.val * MsPerMinute,
                description |-> Plural(minutes.val, "minute")]
          ELSE IF Positive(hours)
          THEN [ok |-> TRUE, intervalMs |-> hours.val * MsPerHour,
                description |-> Plural(hours.val, "hour")]
          ELSE IF Positive(days)
          THEN [ok |-> TRUE, intervalMs |-> days.val * MsPerDay,
                description |-> Plural(days.val, "day")]
          ELSE [ok |-> FALSE,
                error |-> "Frequency must specify at least one valid time unit (minutes, hours, or days)"]

\* normalizeFrequency without the final test of a zero interval.
normalizeFrequencyNoZeroCheck(frequency) ==
    IF frequency.type # "object"
    THEN [ok |-> FALSE, error |-> "Frequency must be an object"]
    ELSE
      LET minutes == frequency.minutes
          hours == frequency.hours
          days == frequency.days
          ms1 == IF Positive(minutes) THEN minutes.val * MsPerMinute ELSE 0
          d1 == IF Positive(minutes) THEN Plural(minutes.val, "minute") ELSE ""
          ms2 == IF Positive(hours) THEN ms1 + hours.val * MsPerHour ELSE ms1
          d2 == IF Positive(hours)
                THEN d1 \o Sep(d1) \o Plural(hours.val, "hour") ELSE d1
          ms3 == IF Positive(days) THEN ms2 + days.val * MsPerDay ELSE ms2
          d3 == IF Positive(days)
                THEN d2 \o Sep(d2) \o Plural(days.val, "day") ELSE d2
      IN  [ok |-> TRUE, intervalMs |-> ms3, description |-> d3]

normalizeFrequency(frequency) ==
    IF frequency.type # "object"
    THEN [ok |-> FALSE, error |-> "Frequency must be an object"]
    ELSE
      LET minutes == frequency.minutes
          hours == frequency.hours
          days == frequency.days
          ms1 == IF Positive(minutes) THEN minutes.val * MsPerMinute ELSE 0
          d1 == IF Positive(minutes) THEN Plural(minutes.val, "minute") ELSE ""
          ms2 == IF Positive(hours) THEN ms1 + hours.val * MsPerHour ELSE ms1
          d2 == IF Positive(hours)
                THEN d1 \o Sep(d1) \o Plural(hours.val, "hour") ELSE d1
          ms3 == IF Positive(days) THEN ms2 + days.val * MsPerDay ELSE ms2
          d3 == IF Positive(days)
                THEN d2 \o Sep(d2) \o Plural(days.val, "day") ELSE d2
      IN  IF ms3 = 0
          THEN [ok |-> FALSE,
                error |-> "Frequency must specify at least one valid time unit (minutes, hours, or days)"]
          ELSE [ok |-> TRUE, intervalMs |-> ms3, description |-> d3]

-----------------------------------------------------------------------------
(* Inputs of schedule.                                                     *)

\* The task argument: null, an object whose execute is no function, and
\* objects with a body that returns/resolves ("succeeds") or throws/rejects
\* ("throws"); hasName tells whether task.name is given.
NoTask == [type |-> "null"]
NotCallable == [type |-> "object", hasName |-> FALSE, execute |-> "notAFunction"]
TaskObj(hasName, body) == [type |-> "object", hasName |-> hasName, execute |-> body]
Bodies == {"succeeds", "throws"}
TaskInputs ==
    {NoTask, NotCallable, TaskObj(FALSE, "succeeds"), TaskObj(TRUE, "throws")}

FreqInputs ==
    NotAnObject \cup
    {Freq(Undefined, Undefined, Undefined),
     Freq(Num(0), Str, Num(-1)),
     Freq(Num(1), Undefined, Undefined),
     Freq(Num(30), Num(1), Undefined)}

\* !task || typeof task.execute !== 'function'
ValidTask(task) == task.type = "object" /\ task.execute \in Bodies

\* task.name || `task-${taskId}`
TaskName(task, taskId) ==
    IF task.hasName THEN "named" ELSE "task-" \o ToString(taskId)

Ids == 1..taskCounter

-----------------------------------------------------------------------------
(* The timer subsystem and the scheduledTask objects.                      *)

\* setInterval(callback, delay): a new live handle, first due delay from now.
\* The handle of a task's timer is modelled by the task's id (one setInterval
\* per successful schedule call).
\* A timer whose first callback is due at once instead of one delay later.
setIntervalDueNow(tm, handle, delay, t) == tm @@ (handle :> t)

setInterval(tm, handle, delay, t) == tm @@ (handle :> (t + delay))

\* clearInterval(handle): no effect on a handle that is not live.
clearInterval(tm, handle) == [h \in DOMAIN tm \ {handle} |-> tm[h]]

\* The timer re-arms itself one delay after the callback started.
rearm(tm, handle, delay, t) == [tm EXCEPT ![handle] = t + delay]

\* The next id taken from the size of the registry instead of the counter.
NextTaskIdFromSize(counter) == Cardinality(tasks) + 1

\* ++this.taskCounter
NextTaskId(counter) == counter + 1

\* The object literal alone, with line 102 (nextRun) left out.
NewTaskNoNextRun(taskId, task, nf, t) ==
    [id |-> taskId,
     name |-> TaskName(task, taskId),
     task |-> task.execute,
     frequency |-> [intervalMs |-> nf.intervalMs, description |-> nf.description],
     intervalId |-> taskId,
     lastRun |-> Null,
     nextRun |-> Null,
     status |-> "scheduled",
     runCount |-> 0,
     errorCount |-> 0]

\* The object literal of lines 61-72, with intervalId and nextRun as lines
\* 101-102 set them.
NewTask(taskId, task, nf, t) ==
    [id |-> taskId,
     name |-> TaskName(task, taskId),
     task |-> task.execute,
     frequency |-> [intervalMs |-> nf.intervalMs, description |-> nf.description],
     intervalId |-> taskId,
     lastRun |-> Null,
     nextRun |-> t + nf.intervalMs,
     status |-> "scheduled",
     runCount |-> 0,
     errorCount |-> 0]

\* executeTask counting the run when it starts, not when it ends.
ExecuteTaskEnterCounts(st, id, t) ==
    [st EXCEPT ![id].status = "running", ![id].lastRun = t,
               ![id].runCount = @ + 1]

\* executeTask up to the await: it runs inside the caller (the timer callback
\* or schedule itself) and queues the body start as a microtask.
ExecuteTaskEnter(st, id, t) ==
    [st EXCEPT ![id].status = "running", ![id].lastRun = t]

\* executeTask whose catch branch counts the run as a success as well.
ExecuteTaskLeaveCountsBoth(st, id, t) ==
    IF st[id].task = "succeeds"
    THEN [st EXCEPT ![id].runCount = @ + 1,
                    ![id].status = "idle",
                    ![id].nextRun = t + st[id].frequency.intervalMs]
    ELSE [st EXCEPT ![id].runCount = @ + 1,
                    ![id].errorCount = @ + 1,
                    ![id].status = "error",
                    ![id].nextRun = t + st[id].frequency.intervalMs]

\* executeTask whose catch branch leaves errorCount alone.
ExecuteTaskLeaveNoErrorCount(st, id, t) ==
    IF st[id].task = "succeeds"
    THEN [st EXCEPT ![id].runCount = @ + 1,
                    ![id].status = "idle",
                    ![id].nextRun = t + st[id].frequency.intervalMs]
    ELSE [st EXCEPT ![id].status = "error",
                    ![id].nextRun = t + st[id].frequency.intervalMs]

\* executeTask after the await: the try branch when the body succeeded, the
\* catch branch when it threw or rejected.
ExecuteTaskLeave(st, id, t) ==
    IF st[id].task = "succeeds"
    THEN [st EXCEPT ![id].runCount = @ + 1,
                    ![id].status = "idle",
                    ![id].nextRun = t + st[id].frequency.intervalMs]
    ELSE [st EXCEPT ![id].errorCount = @ + 1,
                    ![id].status = "error",
                    ![id].nextRun = t + st[id].frequency.intervalMs]

Bump(f, id) == [f EXCEPT ![id] = @ + 1]

-----------------------------------------------------------------------------
(* The public methods.                                                     *)

\* The message schedule throws on these arguments, "" when it throws none.
ScheduleError(task, frequency) ==
    IF ~ValidTask(task) THEN "Task must have an execute method"
    ELSE LET nf == normalizeFrequency(frequency)
         IN  IF ~nf.ok THEN nf.error
             ELSE IF nf.intervalMs <= 0
                  THEN "Invalid frequency: interval must be greater than 0"
                  ELSE ""

\* The constructor (lines 13-27).
Fresh ==
    /\ tasks = {}
    /\ taskCounter = 0
    /\ scheduledTask = <<>>
    /\ timers = <<>>
    /\ microtasks = <<>>
    /\ inFlight = <<>>
    /\ now = 0
    /\ fired = <<>>
    /\ started = <<>>
    /\ completed = <<>>
    /\ returned = <<>>
    /\ immediate = {}
    /\ cancelled = {}
    /\ shutDown = {}

Init == Fresh /\ ret = [op |-> "new"]

\* schedule taking the id before it validates its arguments.
ScheduleThrowsAfterCount(task, frequency) ==
    /\ ScheduleError(task, frequency) # ""
    /\ taskCounter < MaxTasks
    /\ taskCounter' = taskCounter + 1
    /\ ret' = [op |-> "schedule", threw |-> TRUE,
               error |-> ScheduleError(task, frequency)]
    /\ UNCHANGED <<tasks, scheduledTask, timers, microtasks,
                   inFlight, now, fired, started, completed, returned,
                   immediate, cancelled, shutDown>>

\* schedule(task, frequency, runImmediately) throwing at line 44, 165, 192 or 52.
ScheduleThrows(task, frequency) ==
    /\ ScheduleError(task, frequency) # ""
    /\ ret' = [op |-> "schedule", threw |-> TRUE,
               error |-> ScheduleError(task, frequency)]
    /\ UNCHANGED <<tasks, taskCounter, scheduledTask, timers, microtasks,
                   inFlight, now, fired, started, completed, returned, immediate,
                   cancelled, shutDown>>

\* schedule(task, frequency, runImmediately) returning a task id.
Schedule(task, frequency, runImmediately) ==
    /\ ScheduleError(task, frequency) = ""
    /\ LET nf == normalizeFrequency(frequency)
           taskId == NextTaskId(taskCounter)
           created == scheduledTask @@ (taskId :> NewTask(taskId, task, nf, now))
       IN  /\ taskCounter' = taskId
           /\ timers' = setInterval(timers, taskId, nf.intervalMs, now)
           /\ tasks' = tasks \cup {taskId}
           /\ scheduledTask' = IF runImmediately
                               THEN ExecuteTaskEnter(created, taskId, now)
                               ELSE created
           /\ microtasks' = IF runImmediately
                            THEN Append(microtasks, taskId)
                            ELSE microtasks
           /\ inFlight' = inFlight @@ (taskId :> 0)
           /\ fired' = fired @@ (taskId :> 0)
           /\ started' = started @@ (taskId :> 0)
           /\ completed' = completed @@ (taskId :> 0)
           /\ returned' = Append(returned, taskId)
           /\ immediate' = IF runImmediately THEN immediate \cup {taskId}
                           ELSE immediate
           /\ ret' = [op |-> "schedule", threw |-> FALSE, id |-> taskId,
                      runImmediately |-> runImmediately]
    /\ UNCHANGED <<now, cancelled, shutDown>>

\* cancel deleting the record without clearing its timer.
CancelKeepsTimer(taskId) ==
    /\ IF taskId \in tasks
       THEN /\ tasks' = tasks \ {taskId}
            /\ cancelled' = cancelled \cup {taskId}
            /\ ret' = [op |-> "cancel", success |-> TRUE]
            /\ UNCHANGED timers
       ELSE /\ ret' = [op |-> "cancel", success |-> FALSE]
            /\ UNCHANGED <<tasks, timers, cancelled>>
    /\ UNCHANGED <<taskCounter, scheduledTask, microtasks, inFlight, now,
                   fired, started, completed, returned, immediate, shutDown>>

\* cancel(taskId)
Cancel(taskId) ==
    /\ IF taskId \in tasks
       THEN /\ timers' = clearInterval(timers, scheduledTask[taskId].intervalId)
            /\ tasks' = tasks \ {taskId}
            /\ cancelled' = cancelled \cup {taskId}
            /\ ret' = [op |-> "cancel", success |-> TRUE]
       ELSE /\ ret' = [op |-> "cancel", success |-> FALSE]
            /\ UNCHANGED <<tasks, timers, cancelled>>
    /\ UNCHANGED <<taskCounter, scheduledTask, microtasks, inFlight, now,
                   fired, started, completed, returned, immediate, shutDown>>

\* The ids of S in increasing order: the Map iterates in insertion order, and
\* ids are inserted in increasing order.
RECURSIVE InOrder(_)
InOrder(S) ==
    IF S = {} THEN <<>>
    ELSE LET m == CHOOSE x \in S : \A y \in S : x <= y
         IN  <<m>> \o InOrder(S \ {m})

\* A summary whose two counters are taken from each other's field.
SummarySwapsCounts(t) ==
    [id |-> t.id, name |-> t.name, status |-> t.status,
     frequency |-> t.frequency.description, lastRun |-> t.lastRun,
     nextRun |-> t.nextRun, runCount |-> t.errorCount,
     errorCount |-> t.runCount]

Summary(t) ==
    [id |-> t.id, name |-> t.name, status |-> t.status,
     frequency |-> t.frequency.description, lastRun |-> t.lastRun,
     nextRun |-> t.nextRun, runCount |-> t.runCount,
     errorCount |-> t.errorCount]

\* The array listTasks() returns.
listTasks ==
    LET order == InOrder(tasks)
    IN  [i \in 1..Len(order) |-> Summary(scheduledTask[order[i]])]

ListTasks ==
    /\ ret' = [op |-> "listTasks", list |-> listTasks]
    /\ UNCHANGED <<tasks, taskCounter, scheduledTask, timers, microtasks,
                   inFlight, now, fired, started, completed, returned, immediate,
                   cancelled, shutDown>>

\* The loop of lines 233-236: clearInterval on every registered task's handle.
\* The loop left after its first iteration.
ClearFirstOnly(tm, order) ==
    IF order = <<>> THEN tm
    ELSE clearInterval(tm, scheduledTask[Head(order)].intervalId)

RECURSIVE ClearAll(_, _)
ClearAll(tm, order) ==
    IF order = <<>> THEN tm
    ELSE ClearAll(clearInterval(tm, scheduledTask[Head(order)].intervalId),
                  Tail(order))

\* shutdown()
Shutdown ==
    /\ timers' = ClearAll(timers, InOrder(tasks))
    /\ tasks' = {}
    /\ shutDown' = shutDown \cup tasks
    /\ ret' = [op |-> "shutdown"]
    /\ UNCHANGED <<taskCounter, scheduledTask, microtasks, inFlight, now,
                   fired, started, completed, returned, immediate, cancelled>>

-----------------------------------------------------------------------------
(* The event loop.                                                         *)

\* The body start queued by executeTask (line 83): () => task.execute().
BeginBody(id) ==
    /\ inFlight' = Bump(inFlight, id)
    /\ started' = Bump(started, id)

\* One callback of the timer of task id.  Timers run when the loop is idle,
\* so the microtask queue is empty; the queue is drained right after the
\* callback, so the body starts before any other code runs.
\* A timer callback that waits until no body of any task is in flight.
FireWhenAllIdle(id) ==
    /\ \A other \in Ids : inFlight[other] = 0
    /\ id \in DOMAIN timers
    /\ now >= timers[id]
    /\ microtasks = <<>>
    /\ timers' = rearm(timers, id, scheduledTask[id].frequency.intervalMs, now)
    /\ scheduledTask' = ExecuteTaskEnter(scheduledTask, id, now)
    /\ BeginBody(id)
    /\ fired' = Bump(fired, id)
    /\ UNCHANGED <<tasks, taskCounter, microtasks, now, ret, completed,
                   returned, immediate, cancelled, shutDown>>

Fire(id) ==
    /\ id \in DOMAIN timers
    /\ now >= timers[id]
    /\ microtasks = <<>>
    /\ timers' = rearm(timers, id, scheduledTask[id].frequency.intervalMs, now)
    /\ scheduledTask' = ExecuteTaskEnter(scheduledTask, id, now)
    /\ BeginBody(id)
    /\ fired' = Bump(fired, id)
    /\ UNCHANGED <<tasks, taskCounter, microtasks, now, ret, completed,
                   returned, immediate, cancelled, shutDown>>

\* The oldest microtask: the body start left behind by a schedule call with
\* runImmediately.  It runs once the code that called schedule has returned
\* to the event loop.
RunMicrotask ==
    /\ microtasks # <<>>
    /\ BeginBody(Head(microtasks))
    /\ microtasks' = Tail(microtasks)
    /\ UNCHANGED <<tasks, taskCounter, scheduledTask, timers, now, ret, fired,
                   completed, returned, immediate, cancelled, shutDown>>

\* A completion that arms the next tick itself and stores the record again.
SettleRearms(id) ==
    /\ id \in Ids
    /\ inFlight[id] > 0
    /\ microtasks = <<>>
    /\ scheduledTask' = ExecuteTaskLeave(scheduledTask, id, now)
    /\ inFlight' = [inFlight EXCEPT ![id] = @ - 1]
    /\ completed' = Bump(completed, id)
    /\ timers' = [h \in DOMAIN timers \cup {id} |->
                    IF h = id THEN now + scheduledTask[id].frequency.intervalMs
                    ELSE timers[h]]
    /\ tasks' = tasks \cup {id}
    /\ UNCHANGED <<taskCounter, microtasks, now, ret, fired,
                   started, returned, immediate, cancelled, shutDown>>

\* A body of task id settles and executeTask resumes after the await.
Settle(id) ==
    /\ id \in Ids
    /\ inFlight[id] > 0
    /\ microtasks = <<>>
    /\ scheduledTask' = ExecuteTaskLeave(scheduledTask, id, now)
    /\ inFlight' = [inFlight EXCEPT ![id] = @ - 1]
    /\ completed' = Bump(completed, id)
    /\ UNCHANGED <<tasks, taskCounter, timers, microtasks, now, ret, fired,
                   started, returned, immediate, cancelled, shutDown>>

\* Time passes.
Tick ==
    /\ now' = now + MsPerMinute
    /\ UNCHANGED <<tasks, taskCounter, scheduledTask, timers, microtasks,
                   inFlight, ret, fired, started, completed, returned, immediate,
                   cancelled, shutDown>>

\* The schedule calls that fail validation: an invalid task with a valid
\* frequency, and a valid task with each invalid frequency.
InvalidCalls ==
    {c \in TaskInputs \X FreqInputs :
        /\ ScheduleError(c[1], c[2]) # ""
        /\ \/ c[1] = TaskObj(FALSE, "succeeds")
           \/ c[2] = Freq(Num(1), Undefined, Undefined)}

\* The schedule calls that pass validation.
ValidCalls == {c \in TaskInputs \X FreqInputs : ScheduleError(c[1], c[2]) = ""}

\* One step of the program, within the given bounds.
Step(maxTasks, maxFirings, maxTime) ==
    \/ \E call \in InvalidCalls : ScheduleThrows(call[1], call[2])
    \/ \E call \in ValidCalls, runImmediately \in BOOLEAN :
          /\ taskCounter < maxTasks
          /\ Schedule(call[1], call[2], runImmediately)
    \/ \E taskId \in 1..(maxTasks + 1) : Cancel(taskId)
    \/ ListTasks
    \/ Shutdown
    \/ \E id \in 1..maxTasks :
          id \in Ids /\ fired[id] < maxFirings /\ Fire(id)
    \/ RunMicrotask
    \/ \E id \in 1..maxTasks : Settle(id)
    \/ now < maxTime * MsPerMinute /\ Tick

Next == Step(MaxTasks, MaxFirings, MaxTime)

Spec == Init /\ [][Next]_vars

\* The same program with a single task, followed for longer.
NextSolo == Step(1, SoloFirings, SoloTime)

SpecSolo == Init /\ [][NextSolo]_vars

\* The event loop keeps going: time passes, a due timer gets its callback
\* (setInterval, line 101), a queued body start runs (line 83).  The body of
\* task 2 settles whenever it is started; nothing is assumed of the body of
\* task 1, which may stay pending for ever.
Fairness ==
    /\ WF_vars(now < MaxTime * MsPerMinute /\ Tick)
    /\ WF_vars(RunMicrotask)
    /\ \A id \in 1..MaxTasks :
         WF_vars(id \in Ids /\ fired[id] < MaxFirings /\ Fire(id))
    /\ WF_vars(Settle(2))

SpecFair == Spec /\ Fairness

-----------------------------------------------------------------------------
(* normalizeFrequency called on its own, on every frequency of NormInputs. *)

FieldValues == {Undefined, Str} \cup {Num(n) : n \in -1..MaxUnits}

NormInputs ==
    NotAnObject \cup
    {Freq(m, h, d) : m \in FieldValues, h \in FieldValues, d \in FieldValues}

NormInit ==
    /\ Fresh
    /\ \E frequency \in NormInputs :
          ret = [op |-> "normalizeFrequency", frequency |-> frequency,
                 done |-> FALSE]

NormalizeFrequency ==
    /\ ret.op = "normalizeFrequency"
    /\ ~ret.done
    /\ ret' = [op |-> "normalizeFrequency", frequency |-> ret.frequency,
               done |-> TRUE, result |-> normalizeFrequency(ret.frequency)]
    /\ UNCHANGED <<tasks, taskCounter, scheduledTask, timers, microtasks,
                   inFlight, now, fired, started, completed, returned,
                   immediate, cancelled, shutDown>>

NormNext == NormalizeFrequency

SpecNorm == NormInit /\ [][NormNext]_vars

-----------------------------------------------------------------------------
(* Properties.                                                             *)

\* 1 when task id was scheduled with runImmediately, else 0.
Imm(id) == IF id \in immediate THEN 1 ELSE 0

\* Every run of task id entered so far has finished: no body start is
\* pending in the microtask queue and no body is in flight.
AllRunsCompleted(id) ==
    /\ inFlight[id] = 0
    /\ \A i \in 1..Len(microtasks) : microtasks[i] # id

\* The contribution of one field to the interval: its value when it is a
\* positive number, nothing otherwise.
Units(v) == IF v.type = "number" /\ v.val > 0 THEN v.val ELSE 0

WeightedSum(frequency) ==
    Units(frequency.minutes) * 60000 + Units(frequency.hours) * 3600000
        + Units(frequency.days) * 86400000

\* C1: in every reachable state, at most one invocation of a task's body is
\* in flight.
C1_NoOverlap == \A id \in Ids : inFlight[id] <= 1

\* C2: once cancel(id) has returned true, no invocation of that task's body
\* begins.
C2_NoStartAfterCancel ==
    [][\A id \in cancelled : started'[id] = started[id]]_vars

\* C3: after shutdown() returns the registry is empty, listTasks() is empty,
\* no timer is live, and no body of a task it removed begins afterwards.
C3_ShutdownStopsAll ==
    [][/\ Shutdown => /\ tasks' = {}
                      /\ listTasks' = <<>>
                      /\ DOMAIN timers' = {}
       /\ \A id \in shutDown : started'[id] = started[id]]_vars

\* C4 as stated: for a task that was never removed and whose body always
\* throws, after N >= 1 timer firings whose runs have completed,
\* errorCount = N, runCount = 0, status = error, the task is listed and its
\* timer is armed.
C4_ErrorCountIsFirings ==
    \A id \in Ids \ (cancelled \cup shutDown) :
        (scheduledTask[id].task = "throws" /\ fired[id] >= 1
            /\ AllRunsCompleted(id))
        => /\ scheduledTask[id].errorCount = fired[id]
           /\ scheduledTask[id].runCount = 0
           /\ scheduledTask[id].status = "error"
           /\ \E i \in DOMAIN listTasks : listTasks[i].id = id
           /\ id \in DOMAIN timers

\* C4 amended: as C4, with errorCount = N for a task scheduled without
\* runImmediately and N + 1 for a task scheduled with it.
C4_FailingBodyKeepsRecurring ==
    \A id \in Ids \ (cancelled \cup shutDown) :
        (scheduledTask[id].task = "throws" /\ fired[id] >= 1
            /\ AllRunsCompleted(id))
        => /\ scheduledTask[id].errorCount = fired[id] + Imm(id)
           /\ scheduledTask[id].runCount = 0
           /\ scheduledTask[id].status = "error"
           /\ \E i \in DOMAIN listTasks : listTasks[i].id = id
           /\ id \in DOMAIN timers

\* A task that always throws, scheduled with runImmediately, has failed on
\* its immediate run and on two timer firings, and is still scheduled.
C4_Witness ==
    \E id \in tasks :
        /\ scheduledTask[id].task = "throws"
        /\ id \in immediate
        /\ fired[id] = 2
        /\ AllRunsCompleted(id)
        /\ scheduledTask[id].errorCount = 3

\* C5: the ids returned by the successful schedule calls are 1, 2, 3, ... in
\* call order, whatever cancel, shutdown and failed schedule calls come
\* between them.
C5_IdsCountUp == \A i \in 1..Len(returned) : returned[i] = i

\* The last call was a schedule that returned 2, made after task 1 had been
\* cancelled and the registry was empty.
C5_Witness ==
    /\ ret.op = "schedule" /\ ~ret.threw /\ ret.id = 2
    /\ 1 \in cancelled
    /\ returned = <<1, 2>>
    /\ tasks = {2}

\* C6: a schedule call with an invalid task or frequency throws and changes
\* neither the registry, the records, the timers, the pending or running
\* bodies nor the id counter; and no schedule call with such arguments
\* succeeds.
C6_FailedScheduleChangesNothing ==
    [][ret'.op = "schedule"
       => \A task \in TaskInputs, frequency \in FreqInputs :
            (~ValidTask(task) \/ frequency.type # "object"
                \/ WeightedSum(frequency) = 0)
            => IF ret'.threw
               THEN ScheduleThrows(task, frequency)
                    => UNCHANGED <<tasks, taskCounter, scheduledTask, timers,
                                   microtasks, inFlight, started, returned>>
               ELSE \A runImmediately \in BOOLEAN :
                        ~Schedule(task, frequency, runImmediately)]_vars

\* A schedule call has thrown on a frequency without a positive field while
\* task 1 was registered, and task 1 is all there is.
C6_Witness ==
    /\ ret.op = "schedule" /\ ret.threw
    /\ ret.error = "Frequency must specify at least one valid time unit (minutes, hours, or days)"
    /\ tasks = {1}
    /\ taskCounter = 1
    /\ DOMAIN timers = {1}

\* C7: cancel(id) returns true exactly when id is registered; it then removes
\* that record and that timer and nothing else; otherwise it changes neither
\* registry nor timers; it returns false for an id never issued, already
\* cancelled or removed by shutdown.
C7_CancelFrame ==
    [][ret'.op = "cancel"
       => \A taskId \in 1..(MaxTasks + 1) :
        Cancel(taskId)
        => /\ ret'.success <=> taskId \in tasks
           /\ scheduledTask' = scheduledTask
           /\ IF taskId \in tasks
              THEN /\ tasks' = tasks \ {taskId}
                   /\ DOMAIN timers' = DOMAIN timers \ {taskId}
                   /\ \A h \in DOMAIN timers' : timers'[h] = timers[h]
              ELSE /\ tasks' = tasks
                   /\ timers' = timers
           /\ (taskId > taskCounter \/ taskId \in cancelled \cup shutDown)
              => ~ret'.success]_vars

\* A cancel has returned false after task 1 had been cancelled, and task 2
\* is still registered with its timer.
C7_Witness ==
    /\ ret.op = "cancel" /\ ~ret.success
    /\ 1 \in cancelled
    /\ tasks = {2}
    /\ DOMAIN timers = {2}

\* C8 as stated: runCount + errorCount is at most the number of timer
\* firings of the task.
C8_CountsWithinFirings ==
    \A id \in Ids :
        scheduledTask[id].runCount + scheduledTask[id].errorCount <= fired[id]

\* C8 amended: runCount + errorCount is at most the number of timer firings
\* of the task, plus one when it was scheduled with runImmediately.
C8_CountsWithinRuns ==
    \A id \in Ids :
        scheduledTask[id].runCount + scheduledTask[id].errorCount
            <= fired[id] + Imm(id)

\* A task scheduled with runImmediately has fired once and finished two runs.
C8_Witness ==
    \E id \in immediate :
        /\ fired[id] = 1
        /\ scheduledTask[id].runCount + scheduledTask[id].errorCount = 2

\* C9 as stated: right after a successful schedule on an empty registry,
\* listTasks() has one entry, for the returned id, with zero counters and
\* nextRun = now + interval; its status is scheduled, or idle when
\* runImmediately was set and the immediate run has completed.
C9_ScheduledOrIdle ==
    [][(tasks = {} /\ ret'.op = "schedule")
       => \A call \in ValidCalls, runImmediately \in BOOLEAN :
        Schedule(call[1], call[2], runImmediately)
        => /\ Len(listTasks') = 1
           /\ listTasks'[1].id = ret'.id
           /\ listTasks'[1].runCount = 0
           /\ listTasks'[1].errorCount = 0
           /\ listTasks'[1].nextRun = now + WeightedSum(call[2])
           /\ \/ listTasks'[1].status = "scheduled"
              \/ /\ runImmediately
                 /\ completed'[ret'.id] >= 1
                 /\ listTasks'[1].status = "idle"]_vars

\* C9 amended: as C9, the status being scheduled when runImmediately was
\* unset and running when it was set.
C9_ScheduledOrRunning ==
    [][(tasks = {} /\ ret'.op = "schedule")
       => \A call \in ValidCalls, runImmediately \in BOOLEAN :
        Schedule(call[1], call[2], runImmediately)
        => /\ Len(listTasks') = 1
           /\ listTasks'[1].id = ret'.id
           /\ listTasks'[1].runCount = 0
           /\ listTasks'[1].errorCount = 0
           /\ listTasks'[1].nextRun = now + WeightedSum(call[2])
           /\ listTasks'[1].status =
                IF runImmediately THEN "running" ELSE "scheduled"]_vars

\* schedule with runImmediately has just returned 2 on a registry that
\* cancel had emptied, a minute after the start: the one listed task is
\* running and its body has not begun.
C9_Witness ==
    /\ ret.op = "schedule" /\ ~ret.threw /\ ret.runImmediately /\ ret.id = 2
    /\ now = 60000
    /\ tasks = {2}
    /\ microtasks = <<2>>
    /\ Len(listTasks) = 1
    /\ listTasks[1].status = "running"
    /\ listTasks[1].nextRun = 120000

\* C10: for a frequency object with at least one positive numeric field,
\* normalizeFrequency returns intervalMs = minutes*60000 + hours*3600000 +
\* days*86400000 over the positive numeric fields, the other fields adding
\* nothing and raising no error.
C10_IntervalIsWeightedSum ==
    (ret.op = "normalizeFrequency" /\ ret.done
        /\ ret.frequency.type = "object"
        /\ \E v \in {ret.frequency.minutes, ret.frequency.hours,
                     ret.frequency.days} : v.type = "number" /\ v.val > 0)
    => /\ ret.result.ok
       /\ ret.result.intervalMs = WeightedSum(ret.frequency)

\* normalizeFrequency has returned 1 day 2 minutes' worth of milliseconds for
\* {minutes: 2, hours: "x", days: 1}.
C10_Witness ==
    /\ ret.op = "normalizeFrequency" /\ ret.done
    /\ ret.frequency = Freq(Num(2), Str, Num(1))
    /\ ret.result.ok
    /\ ret.result.intervalMs = 86520000

\* No field of the frequency is a positive number.
NoPositiveField(frequency) ==
    \A v \in {frequency.minutes, frequency.hours, frequency.days} :
        ~(v.type = "number" /\ v.val > 0)

\* C11: normalizeFrequency fails on an input that is no object or has no
\* positive numeric field, {} and {minutes: 0} among them; and every record
\* ever created has an interval > 0 that no step changes.
C11_PositiveIntervalForGood ==
    [][/\ ret.op = "new"
          => /\ \A frequency \in NormInputs :
                  (frequency.type # "object" \/ NoPositiveField(frequency))
                  => ~normalizeFrequency(frequency).ok
             /\ ~normalizeFrequency(Freq(Undefined, Undefined, Undefined)).ok
             /\ ~normalizeFrequency(Freq(Num(0), Undefined, Undefined)).ok
       /\ \A id \in DOMAIN scheduledTask' :
            scheduledTask'[id].frequency.intervalMs > 0
       /\ \A id \in DOMAIN scheduledTask :
            /\ scheduledTask[id].frequency.intervalMs > 0
            /\ scheduledTask'[id].frequency = scheduledTask[id].frequency]_vars

\* Two tasks are registered with their intervals of 1 and 90 minutes, the
\* first has finished a run, and the last schedule call threw on a
\* frequency that is no object.
C11_Witness ==
    /\ ret.op = "schedule" /\ ret.threw
    /\ ret.error = "Frequency must be an object"
    /\ tasks = {1, 2}
    /\ scheduledTask[1].frequency.intervalMs = 60000
    /\ scheduledTask[2].frequency.intervalMs = 5400000
    /\ completed[1] >= 1

\* The summary listTasks() gives for the task with this id.
Reported(list, id) == CHOOSE e \in {list[i] : i \in 1..Len(list)} : e.id = id

\* C12: a task scheduled with {minutes: 1} is reported with the description
\* "1 minute", one scheduled with {hours: 1, minutes: 30} with the
\* description "1 hour 30 minutes", and the second interval is 90 times the
\* first.
C12_DescriptionsAsStated ==
    [][(ret'.op = "schedule" /\ ~ret'.threw)
       => \A call \in ValidCalls, runImmediately \in BOOLEAN :
            Schedule(call[1], call[2], runImmediately)
            => LET A == Freq(Num(1), Undefined, Undefined)
                   B == Freq(Num(30), Num(1), Undefined)
                   e == Reported(listTasks', ret'.id)
                   interval == scheduledTask'[ret'.id].frequency.intervalMs
               IN  /\ call[2] = A => e.frequency = "1 minute"
                   /\ call[2] = B
                      => /\ e.frequency = "1 hour 30 minutes"
                         /\ interval = 90 * normalizeFrequency(A).intervalMs]_vars

\* C13: a listTasks() call leaves the registry, every record, every timer,
\* the queue of pending body starts and the id counter as they were, and
\* returns normally one summary per registered record with that record's
\* current id, name, status, frequency description, lastRun, nextRun,
\* runCount and errorCount.
C13_ListTasksIsPure ==
    [][(ret'.op = "listTasks" /\ ret' # ret)
       => /\ UNCHANGED <<tasks, taskCounter, scheduledTask, timers,
                         microtasks, inFlight, now>>
          /\ Len(ret'.list) = Cardinality(tasks)
          /\ \A id \in tasks :
               LET at == {i \in 1..Len(ret'.list) : ret'.list[i].id = id}
                   t == scheduledTask[id]
               IN  /\ Cardinality(at) = 1
                   /\ \A i \in at :
                        /\ ret'.list[i].name = t.name
                        /\ ret'.list[i].status = t.status
                        /\ ret'.list[i].frequency = t.frequency.description
                        /\ ret'.list[i].lastRun = t.lastRun
                        /\ ret'.list[i].nextRun = t.nextRun
                        /\ ret'.list[i].runCount = t.runCount
                        /\ ret'.list[i].errorCount = t.errorCount]_vars

\* listTasks() has returned two summaries, one of them of a task whose
\* only run failed.
C13_Witness ==
    /\ ret.op = "listTasks"
    /\ Len(ret.list) = 2
    /\ \E i \in 1..2 :
         /\ ret.list[i].status = "error"
         /\ ret.list[i].errorCount = 1
         /\ ret.list[i].runCount = 0

\* C14: the status of a registered task changes only from scheduled, idle
\* or error to running, at a timer firing that starts a run, and from
\* running to idle or error, at the completion of a run; and a run never
\* completes while the status is not running.
C14_StatusStateMachine ==
    [][\A id \in tasks \cap tasks' :
         LET from == scheduledTask[id].status
             to == scheduledTask'[id].status
         IN  /\ from # to
                => \/ /\ from \in {"scheduled", "idle", "error"}
                      /\ to = "running"
                      /\ fired'[id] = fired[id] + 1
                   \/ /\ from = "running"
                      /\ to \in {"idle", "error"}
                      /\ completed'[id] = completed[id] + 1
             /\ completed'[id] # completed[id] => from = "running"]_vars

\* C15: in every reachable state the ids in the registry are the ids with
\* a live timer, and the registered records hold pairwise different
\* handles, each of them live.
C15_RegistryMatchesTimers ==
    /\ DOMAIN timers = tasks
    /\ {scheduledTask[id].intervalId : id \in tasks} = DOMAIN timers
    /\ \A id, other \in tasks :
         scheduledTask[id].intervalId = scheduledTask[other].intervalId
         => id = other

\* After a shutdown that removed task 1 with its timer, task 2 is registered,
\* it is the only one with a timer, and that timer has fired.
C15_Witness ==
    /\ 1 \in shutDown
    /\ tasks = {2}
    /\ DOMAIN timers = {2}
    /\ fired[2] = 1

Pending(id) == Cardinality({i \in 1..Len(microtasks) : microtasks[i] = id})

\* C17: a schedule call starts one run if runImmediately is set and none
\* otherwise, so the runs of a task are its timer firings plus that one;
\* the call makes the first firing due one interval after it, no later
\* step other than a firing moves that time, whatever the immediate run
\* does, and no firing comes before it is due.
C17_ImmediateRunBesidesTimer ==
    [][/\ \A id \in DOMAIN scheduledTask' :
            started'[id] + Pending(id)' = fired'[id] + Imm(id)'
       /\ \A id \in DOMAIN timers' \ DOMAIN timers :
            /\ timers'[id] = now + scheduledTask'[id].frequency.intervalMs
            /\ Pending(id)' = Imm(id)'
            /\ started'[id] = 0 /\ fired'[id] = 0
            /\ scheduledTask'[id].status
                 = IF id \in immediate' THEN "running" ELSE "scheduled"
       /\ \A id \in DOMAIN timers \cap DOMAIN timers' :
            fired'[id] = fired[id] => timers'[id] = timers[id]
       /\ \A id \in DOMAIN timers :
            fired'[id] # fired[id] => now >= timers[id]]_vars

\* Task 1 was scheduled at time 0 with runImmediately and its immediate run
\* is still in flight when its timer fires one interval later, at one
\* minute; task 2 was scheduled without runImmediately and has not run.
C17_Witness ==
    /\ tasks = {1, 2}
    /\ 1 \in immediate
    /\ fired[1] = 1 /\ inFlight[1] = 2 /\ completed[1] = 0
    /\ scheduledTask[1].lastRun = scheduledTask[1].frequency.intervalMs
    /\ 2 \notin immediate
    /\ started[2] = 0

\* The tasks removed by cancel or by shutdown.
Removed == cancelled \cup shutDown

\* C18: cancel and shutdown leave a body in flight as it is, that body can
\* still complete, and from the removal on the task has no timer, gets no
\* firing, is not in the registry and is in no list listTasks() returns,
\* also after its body has completed.
C18_InFlightBodyOutlivesRemoval ==
    [][/\ \A id \in Removed' \ Removed :
            /\ inFlight'[id] = inFlight[id]
            /\ completed'[id] = completed[id]
            /\ Pending(id)' = Pending(id)
       /\ \A id \in Removed :
            /\ fired'[id] = fired[id]
            /\ (inFlight[id] > 0 /\ microtasks = <<>>) => ENABLED Settle(id)
       /\ \A id \in Removed' :
            /\ id \notin tasks'
            /\ id \notin DOMAIN timers'
            /\ \A i \in 1..Len(listTasks') : listTasks'[i].id # id]_vars

\* cancel(1) has just returned true while a body of task 1 is in flight;
\* task 2 is still registered.
C18_Witness ==
    /\ ret = [op |-> "cancel", success |-> TRUE]
    /\ 1 \in cancelled
    /\ inFlight[1] = 1
    /\ scheduledTask[1].status = "running"
    /\ tasks = {2}

\* C19: in every reachable state the status of a registered task is
\* running exactly when a run of it has been entered and has not completed,
\* its body start queued or its body in flight.
C19_RunningIffInFlight ==
    \A id \in tasks :
        scheduledTask[id].status = "running"
        <=> (inFlight[id] > 0 \/ Pending(id) > 0)

\* C20: a step that completes a run of a task adds 1 to its runCount and
\* leaves errorCount if the body succeeded, adds 1 to its errorCount and
\* leaves runCount if the body threw; every other step, the public calls
\* among them, leaves both counters of every task as they are; a new
\* record has both at 0; and runCount + errorCount is the number of
\* completed body invocations.
C20_CountersCountCompletions ==
    [][/\ \A id \in DOMAIN scheduledTask :
            LET before == scheduledTask[id]
                after == scheduledTask'[id]
            IN  /\ after.runCount >= before.runCount
                /\ after.errorCount >= before.errorCount
                /\ IF completed'[id] # completed[id]
                   THEN /\ completed'[id] = completed[id] + 1
                        /\ ret' = ret
                        /\ IF before.task = "succeeds"
                           THEN /\ after.runCount = before.runCount + 1
                                /\ after.errorCount = before.errorCount
                           ELSE /\ after.errorCount = before.errorCount + 1
                                /\ after.runCount = before.runCount
                   ELSE /\ after.runCount = before.runCount
                        /\ after.errorCount = before.errorCount
       /\ \A id \in DOMAIN scheduledTask' :
            scheduledTask'[id].runCount + scheduledTask'[id].errorCount
              = completed'[id]]_vars

\* Task 1 has completed two successful runs and task 2 one failed run, and
\* a listTasks() call has followed.
C20_Witness ==
    /\ tasks = {1, 2}
    /\ scheduledTask[1].runCount = 2 /\ scheduledTask[1].errorCount = 0
    /\ scheduledTask[2].runCount = 0 /\ scheduledTask[2].errorCount = 1
    /\ completed[1] = 2 /\ completed[2] = 1
    /\ ret.op = "listTasks"

====
